---------------------------- MODULE Spec2Model ----------------------------
(***************************************************************************)
(* Model of the vehicle lateral-dynamics integrator (src/src/sim.js, the   *)
(* "corrected, stable" VehicleSim of lines 350-557), of the controls that  *)
(* write its inputs (src/src/ui.js), of the render loop and the run-sweep  *)
(* and export-csv click handlers (src/src/main.js) and of the pressure     *)
(* sweep (src/src/plots.js).                                               *)
(*                                                                         *)
(* A finite JavaScript number is modelled as the integer count of a fixed  *)
(* unit; Infinity, -Infinity and NaN are three values outside their range. *)
(* Units: time ms; speed cm/s; lengths cm; pressures 0.01 psi; steering    *)
(* 0.1 deg; angles in rad 1e-4 rad; vy mm/s; r mrad/s; forces N; torques   *)
(* N.m (the recorded aligning torque 0.01 N.m); accelerations mm/s^2;      *)
(* recorded yaw 0.01 deg/s; recorded slip 0.001 deg.  Products and         *)
(* quotients of finite values are rounded to the nearest unit, and the     *)
(* elapsed time is rounded to a mantissa of TimeBits bits.                 *)
(***************************************************************************)
EXTENDS Integers, Sequences, FiniteSets, TLC

VARIABLES
  sim,      \* the VehicleSim object (window.sim)
  prev,     \* the VehicleSim object as it was before the last call
  call,     \* the last call made on the simulator, with its argument and caller
  nops,     \* number of calls and input writes made so far
  app       \* the page: run-sweep button, sweep coroutine, stored results

vars == <<sim, prev, call, nops, app>>

----------------------------------------------------------------------------
(* JavaScript numbers *)

\* a finite number is the integer count of its unit; the three other values of
\* a JavaScript number lie outside the range of the finite ones
PInf == 2000000000
NInf == -2000000000
NaN  == 2000000001

Fin(n) == n

Abs(n) == IF n < 0 THEN -n ELSE n
Sgn(n) == IF n < 0 THEN -1 ELSE IF n > 0 THEN 1 ELSE 0

\* a / b rounded to the nearest integer (b # 0)
RDiv(a, b) ==
  LET q == (Abs(a) + (Abs(b) \div 2)) \div Abs(b)
  IN  IF (a < 0) # (b < 0) THEN -q ELSE q

IsNaN(a)    == a = NaN
isFinite(a) == NInf < a /\ a < PInf
InfOf(s)    == IF s < 0 THEN NInf ELSE PInf

\* a < b, false when either is NaN
fLt(a, b) == ~IsNaN(a) /\ ~IsNaN(b) /\ a < b
fGt(a, b) == fLt(b, a)
fLe(a, b) == ~IsNaN(a) /\ ~IsNaN(b) /\ a <= b
fGe(a, b) == fLe(b, a)

fNeg(a) == IF IsNaN(a) THEN NaN ELSE -a

fAdd(a, b) ==
  CASE IsNaN(a) \/ IsNaN(b)              -> NaN
    [] ~isFinite(a) /\ ~isFinite(b)      -> IF a = b THEN a ELSE NaN
    [] ~isFinite(a)                      -> a
    [] ~isFinite(b)                      -> b
    [] OTHER                             -> a + b

fSub(a, b) == fAdd(a, fNeg(b))

\* the significant bits the elapsed time is kept to: 53 for a double, cut
\* down here with the range of the finite values
TimeBits == 20

\* the count of units up to which the elapsed time is exact; past it the
\* spacing of its values doubles with every power of two
TimeMantissa == 2 ^ TimeBits

\* the spacing of the representable values at x, with a given mantissa
RECURSIVE GrainAt(_, _)
GrainAt(x, mantissa) ==
  IF Abs(x) < mantissa THEN 1 ELSE 2 * GrainAt(x \div 2, mantissa)

\* x brought to the nearest multiple of g, to the even one of two as near
RoundTo(x, g) ==
  LET lo == (x \div g) * g
      r  == x - lo
  IN  IF 2 * r < g THEN lo
      ELSE IF 2 * r > g THEN lo + g
      ELSE IF (lo \div g) % 2 = 0 THEN lo ELSE lo + g

\* a sum rounded as a number of 8 significant bits would be
fRoundShort(x) == IF isFinite(x) THEN RoundTo(x, GrainAt(x, 256)) ELSE x

\* the rounding of a finite sum to the nearest representable value
fRound(x) == IF isFinite(x) THEN RoundTo(x, GrainAt(x, TimeMantissa)) ELSE x

\* a * b, the finite product brought to the result's unit by  / unit
fMul(a, b, unit) ==
  CASE IsNaN(a) \/ IsNaN(b)              -> NaN
    [] isFinite(a) /\ isFinite(b)        -> RDiv(a * b, unit)
    [] a = 0 \/ b = 0                    -> NaN
    [] OTHER                             -> InfOf(Sgn(a) * Sgn(b))

\* a / b, the finite quotient brought to the result's unit by  * unit
fDiv(a, b, unit) ==
  CASE IsNaN(a) \/ IsNaN(b)              -> NaN
    [] ~isFinite(a) /\ ~isFinite(b)      -> NaN
    [] ~isFinite(a)                      -> InfOf(Sgn(a) * (IF b < 0 THEN -1 ELSE 1))
    [] ~isFinite(b)                      -> 0
    [] b = 0                             -> IF a = 0 THEN NaN ELSE InfOf(a)
    [] OTHER                             -> RDiv(a * unit, b)

\* a * (num / den) for a numeric literal num / den > 0
fScale(a, num, den) == IF isFinite(a) THEN RDiv(a * num, den) ELSE a

\* Math.max, Math.min: NaN when either argument is NaN
MathMax(a, b) == IF IsNaN(a) \/ IsNaN(b) THEN NaN ELSE IF a < b THEN b ELSE a
MathMin(a, b) == IF IsNaN(a) \/ IsNaN(b) THEN NaN ELSE IF b < a THEN b ELSE a

\* x || 1 in place of  x || 0
OrOne(a) == IF IsNaN(a) \/ a = 0 THEN 10 ELSE a

\* x || 0 on a number: 0 and NaN are falsy
OrZero(a) == IF IsNaN(a) THEN 0 ELSE a

\* a % m for a finite m > 0: the remainder takes the sign of the dividend
fRem(a, m) ==
  IF ~isFinite(a) THEN NaN
  ELSE Sgn(a) * (Abs(a) % m)

\* 1e4 * (P / 32 psi)^0.8 at P = 1, 2, ..., 64 psi
Pow08Tab ==
  << 625, 1088, 1505, 1895, 2265, 2621, 2965, 3299, 3625, 3943, 4256, 4563,
     4864, 5162, 5454, 5743, 6029, 6311, 6590, 6866, 7139, 7410, 7678, 7944,
     8208, 8470, 8729, 8987, 9243, 9497, 9749, 10000, 10249, 10497, 10743,
     10988, 11232, 11474, 11715, 11954, 12193, 12430, 12666, 12902, 13136,
     13369, 13601, 13832, 14062, 14291, 14519, 14746, 14973, 15198, 15423,
     15647, 15870, 16092, 16314, 16535, 16755, 16974, 17193, 17411 >>

\* Math.pow(safeP / P0, 0.8) in units of 1e-4, for safeP >= 0.1 psi and
\* P0 = 32 psi; the finite pressures it is applied to are 0.1 psi or whole psi
MathPow08(safeP, P0) ==
  CASE IsNaN(safeP) \/ IsNaN(P0)                      -> NaN
    [] safeP = PInf                                   -> PInf
    [] P0 = Fin(3200) /\ safeP = Fin(10)              -> Fin(99)
    [] P0 = Fin(3200) /\ isFinite(safeP) /\ safeP % 100 = 0
         /\ safeP \div 100 \in DOMAIN Pow08Tab        -> Fin(Pow08Tab[safeP \div 100])

----------------------------------------------------------------------------
(* VehicleSim *)

EmptyBuf ==
  [time |-> <<>>, delta |-> <<>>, yaw |-> <<>>, slipFL |-> <<>>,
   FyFL |-> <<>>, MzFL |-> <<>>, ay |-> <<>>]

Series == {"time", "delta", "yaw", "slipFL", "FyFL", "MzFL", "ay"}

\* resetBuffers() leaving the lateral velocity as it is
resetKeepsVy(s) ==
  [s EXCEPT !.buf = EmptyBuf, !.time = Fin(0), !.r = Fin(0)]

\* resetBuffers() setting the time to that of the oldest record it drops
resetRebase(s) ==
  [s EXCEPT !.buf = EmptyBuf,
            !.time = IF Len(s.buf.time) > 0 THEN s.buf.time[1] ELSE Fin(0),
            !.vy = Fin(0), !.r = Fin(0)]

\* resetBuffers()
resetBuffers(s) ==
  [s EXCEPT !.buf = EmptyBuf, !.time = Fin(0), !.vy = Fin(0), !.r = Fin(0)]

\* new VehicleSim(params)
VehicleSim(params) ==
  resetBuffers(
    [m |-> params.m, Iz |-> params.Iz, lf |-> params.lf, lr |-> params.lr,
     speed |-> IF OrZero(params.u) = Fin(0) THEN Fin(1) ELSE params.u,
     P0 |-> params.P0, Calpha0 |-> params.Calpha0, sigma0 |-> params.sigma0,
     pressure |-> params.P0,
     pressureFL |-> params.P0, pressureFR |-> params.P0,
     pressureRL |-> params.P0, pressureRR |-> params.P0,
     r |-> Fin(0), vy |-> Fin(0), time |-> Fin(0),
     wheelSpin |-> Fin(0), steerInput |-> Fin(0),
     visual |-> FALSE, frontSteerAngle |-> Fin(0),
     buf |-> EmptyBuf])

\* the parameters main.js constructs the simulator with
MainParams ==
  [m |-> Fin(1500), Iz |-> Fin(2500), lf |-> Fin(120), lr |-> Fin(160),
   u |-> Fin(2000), P0 |-> Fin(3200), Calpha0 |-> Fin(80000), sigma0 |-> Fin(2)]

\* the stiffness law with its floor at 1 psi in place of 0.1 psi
CalphaFromPFloorOne(s, P) ==
  LET safeP == MathMax(Fin(100), P)
  IN  fMul(s.Calpha0, MathPow08(safeP, s.P0), 10000)

\* CalphaFromP(P)
CalphaFromP(s, P) ==
  LET safeP == MathMax(Fin(10), P)
  IN  fMul(s.Calpha0, MathPow08(safeP, s.P0), 10000)

maxN == 2000

\* the store trimming only past the limit:  if (this.buf.time.length > maxN)
StoreTrimLate(buf, rec) ==
  LET trimmed == IF Len(buf.time) > maxN
                 THEN [k \in Series |-> Tail(buf[k])]
                 ELSE buf
  IN  [k \in Series |-> Append(trimmed[k], rec[k])]

\* the store trimming with pop() in place of shift()
StoreDropsNewest(buf, rec) ==
  LET trimmed == IF Len(buf.time) >= maxN
                 THEN [k \in Series |-> SubSeq(buf[k], 1, Len(buf[k]) - 1)]
                 ELSE buf
  IN  [k \in Series |-> Append(trimmed[k], rec[k])]

\* the trim before the push, and the seven pushes
Store(buf, rec) ==
  LET trimmed == IF Len(buf.time) >= maxN
                 THEN [k \in Series |-> Tail(buf[k])]
                 ELSE buf
  IN  [k \in Series |-> Append(trimmed[k], rec[k])]

\* updateVisual(steerRad, slipFL, FyFL, dt)
updateVisual(s, steerRad, dt) ==
  IF ~s.visual THEN s
  ELSE
    LET fsa    == fAdd(s.frontSteerAngle,
                       fScale(fSub(steerRad, s.frontSteerAngle), 2, 10))
        wheelR == Fin(33)
        omega  == fDiv(s.speed, MathMax(wheelR, Fin(5)), 1000)
        spin   == fRem(fAdd(s.wheelSpin, fMul(omega, dt, 100)), 62832)
    IN  [s EXCEPT !.frontSteerAngle = fsa, !.wheelSpin = spin]

Clamp(x, lim) == MathMax(fNeg(lim), MathMin(lim, x))

\* the guard written  if (dt < 0) return;
StepIgnoredNeg(dt) == fLt(dt, Fin(0))

\* if (!(dt > 0)) return;
StepIgnored(dt) == ~fGt(dt, Fin(0))

\* the forward speed used without its floor
RawSpeed(s) == s.speed

\* const u = Math.max(0.01, this.speed)
SafeSpeed(s) == MathMax(Fin(1), s.speed)

\* the values step computes before it integrates
Dyn(s) ==
  LET delta_deg == OrZero(s.steerInput)
      delta     == fScale(delta_deg, 17453, 1000)
      u         == SafeSpeed(s)
      Pf        == fScale(fAdd(s.pressureFL, s.pressureFR), 1, 2)
      Pr        == fScale(fAdd(s.pressureRL, s.pressureRR), 1, 2)
      Caf       == CalphaFromP(s, Pf)
      Car       == CalphaFromP(s, Pr)
      alpha_f0  == fSub(delta, fDiv(fAdd(s.vy, fMul(s.lf, s.r, 100)), u, 1000))
      alpha_r0  == fNeg(fDiv(fSub(s.vy, fMul(s.lr, s.r, 100)), u, 1000))
      maxSlip   == fScale(Fin(200), 17453, 1000)
      alpha_f   == Clamp(alpha_f0, maxSlip)
      alpha_r   == Clamp(alpha_r0, maxSlip)
      Fy_f_raw  == fMul(fNeg(Caf), alpha_f, 10000)
      Fy_r_raw  == fMul(fNeg(Car), alpha_r, 10000)
      FyMax     == Fin(100000)
      Fy_f      == Clamp(Fy_f_raw, FyMax)
      Fy_r      == Clamp(Fy_r_raw, FyMax)
      Cv        == Fin(3000)
      Cr        == Fin(2500)
      vy_dot    == fSub(fDiv(fSub(fAdd(Fy_f, Fy_r), fMul(Cv, s.vy, 1000)),
                             s.m, 1000),
                        fMul(u, s.r, 100))
      r_dot     == fDiv(fSub(fSub(fMul(s.lf, Fy_f, 100), fMul(s.lr, Fy_r, 100)),
                             fMul(Cr, s.r, 1000)),
                        s.Iz, 1000)
  IN  [delta_deg |-> delta_deg, delta |-> delta, u |-> u, Pf |-> Pf, Pr |-> Pr,
       Caf |-> Caf, Car |-> Car, alpha_f |-> alpha_f, alpha_r |-> alpha_r,
       Fy_f |-> Fy_f, Fy_r |-> Fy_r, vy_dot |-> vy_dot, r_dot |-> r_dot]

\* this.vy += vy_dot * dt; this.r += r_dot * dt
Euler(s, d, dt) ==
  [vy |-> fAdd(s.vy, fMul(d.vy_dot, dt, 1000)),
   r  |-> fAdd(s.r, fMul(d.r_dot, dt, 1000))]

\* the clamp of both states to +-50
ClampState(e) ==
  LET vyMax == Fin(50000)
      rMax  == Fin(50000)
  IN  [vy |-> Clamp(e.vy, vyMax), r |-> Clamp(e.r, rMax)]

\* no finite-state guard
GuardOff(c) == c

\* the finite-state guard: both states go to zero when either is not finite
Guard(c) ==
  IF ~isFinite(c.vy) \/ ~isFinite(c.r)
  THEN [vy |-> Fin(0), r |-> Fin(0)]
  ELSE c

\* the record with the steering angle pushed in radians
RecordRad(time, d, g) ==
  [time   |-> time,
   delta  |-> d.delta,
   yaw    |-> fScale(g.r, 5730, 1000),
   slipFL |-> fScale(d.alpha_f, 5730, 1000),
   FyFL   |-> d.Fy_f,
   MzFL   |-> fScale(d.Fy_f, 12, 1),
   ay     |-> fAdd(d.vy_dot, fMul(d.u, g.r, 100))]

\* the record step appends
Record(time, d, g) ==
  [time   |-> time,
   delta  |-> d.delta_deg,
   yaw    |-> fScale(g.r, 5730, 1000),
   slipFL |-> fScale(d.alpha_f, 5730, 1000),
   FyFL   |-> d.Fy_f,
   MzFL   |-> fScale(d.Fy_f, 12, 1),
   ay     |-> fAdd(d.vy_dot, fMul(d.u, g.r, 100))]

\* a step that does nothing while no visual nodes are bound
stepNeedsVisual(s, dt) ==
  IF StepIgnored(dt) \/ ~s.visual THEN s
  ELSE
    LET time == fRound(fAdd(s.time, dt))
        d    == Dyn(s)
        g    == Guard(ClampState(Euler(s, d, dt)))
        s1   == [s EXCEPT !.time = time, !.vy = g.vy, !.r = g.r,
                          !.buf = Store(s.buf, Record(time, d, g))]
    IN  updateVisual(s1, d.delta, dt)

\* step(dt)
step(s, dt) ==
  IF StepIgnored(dt) THEN s
  ELSE
    LET time == fRound(fAdd(s.time, dt))
        d    == Dyn(s)
        g    == Guard(ClampState(Euler(s, d, dt)))
        s1   == [s EXCEPT !.time = time, !.vy = g.vy, !.r = g.r,
                          !.buf = Store(s.buf, Record(time, d, g))]
    IN  updateVisual(s1, d.delta, dt)

----------------------------------------------------------------------------
(* Callers *)

NoCall == [op |-> "none", arg |-> Fin(0), by |-> "none", after |-> "none"]

Call(op, arg, by) == [op |-> op, arg |-> arg, by |-> by, after |-> call.op]

NoNumbers == <<>>

\* no file has been offered for download
NoFile == [defined |-> FALSE, name |-> "", lines |-> <<>>, text |-> ""]

\* the page after start(): no sweep running, the run-sweep button enabled,
\* window.lastSweepResults undefined, no alert shown, no file downloaded, no
\* promise of a click handler rejected
IdleApp ==
  [pc |-> "idle", btnDisabled |-> FALSE, sweeps |-> 0,
   i |-> 0, t |-> 0,
   slipArr |-> NoNumbers, FyArr |-> NoNumbers,
   deltaArr |-> NoNumbers, yawArr |-> NoNumbers,
   results |-> <<>>,
   lastSweepResults |-> [defined |-> FALSE, rows |-> <<>>],
   rejected |-> FALSE,
   alerted |-> FALSE, lastExport |-> "none", file |-> NoFile]

\* inputs a caller of the simulator may pass or assign
MaxOps   == 3
DtSet    == {Fin(-10), Fin(0), Fin(10), Fin(50), PInf, NaN}
SteerSet == {Fin(30), Fin(-350)}
SpeedSet == {Fin(0), Fin(-500), Fin(3000), PInf}
PressSet == {Fin(-4000), Fin(-3200), Fin(2000), PInf}
Wheels   == {"pressureFL", "pressureFR", "pressureRL", "pressureRR"}

Init ==
  /\ sim = VehicleSim(MainParams)
  /\ prev = sim
  /\ call = NoCall
  /\ nops = 0
  /\ app = IdleApp

\* sim.step(dt)
StepCall ==
  /\ nops < MaxOps
  /\ \E dt \in DtSet :
       /\ sim' = step(sim, dt)
       /\ call' = Call("step", dt, "api")
  /\ prev' = sim
  /\ nops' = nops + 1
  /\ UNCHANGED app

\* sim.resetBuffers()
ResetCall ==
  /\ nops < MaxOps
  /\ sim' = resetBuffers(sim)
  /\ call' = Call("reset", Fin(0), "api")
  /\ prev' = sim
  /\ nops' = nops + 1
  /\ UNCHANGED app

\* sim.steerInput = v
SetSteer ==
  /\ nops < MaxOps
  /\ \E v \in SteerSet :
       /\ sim' = [sim EXCEPT !.steerInput = v]
       /\ call' = Call("steerInput", v, "api")
  /\ prev' = sim
  /\ nops' = nops + 1
  /\ UNCHANGED app

\* sim.speed = v
SetSpeed ==
  /\ nops < MaxOps
  /\ \E v \in SpeedSet :
       /\ sim' = [sim EXCEPT !.speed = v]
       /\ call' = Call("speed", v, "api")
  /\ prev' = sim
  /\ nops' = nops + 1
  /\ UNCHANGED app

\* sim.pressureFL = v, and the same for FR, RL, RR
SetWheelPressure ==
  /\ nops < MaxOps
  /\ \E w \in Wheels, v \in PressSet :
       /\ sim' = [sim EXCEPT ![w] = v]
       /\ call' = Call(w, v, "api")
  /\ prev' = sim
  /\ nops' = nops + 1
  /\ UNCHANGED app

\* sim.bindVisual(nodes)
BindVisual ==
  /\ ~sim.visual
  /\ sim' = [sim EXCEPT !.visual = TRUE]
  /\ call' = Call("bindVisual", Fin(0), "api")
  /\ prev' = sim
  /\ UNCHANGED <<nops, app>>

Next ==
  \/ StepCall
  \/ ResetCall
  \/ SetSteer
  \/ SetSpeed
  \/ SetWheelPressure
  \/ BindVisual

Spec == Init /\ [][Next]_vars

----------------------------------------------------------------------------
(* Properties of the integrator *)

Inputs(s) ==
  <<s.steerInput, s.speed, s.pressureFL, s.pressureFR, s.pressureRL, s.pressureRR>>

Config(s) == <<s.m, s.Iz, s.lf, s.lr, s.P0, s.Calpha0>>

Dynamic(s) == <<s.time, s.vy, s.r>>

LastRec(s) == [k \in Series |-> s.buf[k][Len(s.buf[k])]]

StepDone    == call.op = "step" /\ fGt(call.arg, Fin(0))
StepSkipped == call.op = "step" /\ fLe(call.arg, Fin(0))

\* C2: a step with dt <= 0 leaves the whole simulator (elapsed time, yaw rate,
\* lateral velocity, every series, the inputs, the presentation state) as it was.
C2_NonPositiveDtIsNoOp == StepSkipped => sim = prev

C2_Witness ==
  /\ StepSkipped
  /\ call.arg = Fin(0)
  /\ Len(sim.buf.time) > 0
  /\ sim.visual

C4_StateBounded ==
  /\ isFinite(sim.vy) /\ Abs(sim.vy) <= 50000
  /\ isFinite(sim.r)  /\ Abs(sim.r) <= 50000

\* a step whose Euler update left the range or was not a number
C4_Witness ==
  /\ StepDone
  /\ LET e == Euler(prev, Dyn(prev), call.arg)
     IN  IsNaN(e.vy) \/ e.r = PInf \/ e.r = NInf
  /\ call.after = "step"

EulerNonFinite ==
  LET e == Euler(prev, Dyn(prev), call.arg)
  IN  ~isFinite(e.vy) \/ ~isFinite(e.r)

\* C5: whenever the Euler update of a step makes the lateral velocity or the
\* yaw rate non-finite (NaN, +Infinity or -Infinity), the step ends with both
\* at exactly 0 and with its record appended, and both are finite afterwards.
C5_NonFiniteResetsToZero ==
  /\ (StepDone /\ EulerNonFinite) =>
       /\ sim.vy = Fin(0) /\ sim.r = Fin(0)
       /\ Len(sim.buf.time) = Len(prev.buf.time) + 1
  /\ isFinite(sim.vy) /\ isFinite(sim.r)

AllFinite(s) ==
  /\ \A x \in {s.time, s.vy, s.r, s.steerInput, s.speed} : isFinite(x)
  /\ \A w \in Wheels : isFinite(s[w])

AxleP(s, a, b) == fScale(fAdd(s[a], s[b]), 1, 2)

\* the simulator with each offending input replaced by its floor
Floored(s) ==
  LET Pf == AxleP(s, "pressureFL", "pressureFR")
      Pr == AxleP(s, "pressureRL", "pressureRR")
      f  == fLe(Pf, Fin(0))
      r  == fLe(Pr, Fin(0))
  IN  [s EXCEPT !.speed      = IF fLe(@, Fin(0)) THEN Fin(1) ELSE @,
                !.pressureFL = IF f THEN Fin(10) ELSE @,
                !.pressureFR = IF f THEN Fin(10) ELSE @,
                !.pressureRL = IF r THEN Fin(10) ELSE @,
                !.pressureRR = IF r THEN Fin(10) ELSE @]

Hazard(s) ==
  \/ fLe(s.speed, Fin(0))
  \/ fLe(AxleP(s, "pressureFL", "pressureFR"), Fin(0))
  \/ fLe(AxleP(s, "pressureRL", "pressureRR"), Fin(0))

C7_ResetClearsAndKeepsInputs ==
  call.op = "reset" =>
    /\ \A k \in Series : sim.buf[k] = <<>>
    /\ Dynamic(sim) = <<Fin(0), Fin(0), Fin(0)>>
    /\ Inputs(sim) = Inputs(prev)
    /\ sim.pressure = prev.pressure
    /\ Config(sim) = Config(prev)

C7_Witness ==
  /\ call.op = "reset"
  /\ Len(prev.buf.time) > 0
  /\ prev.vy # Fin(0)
  /\ prev.r # Fin(0)
  /\ sim.steerInput # Fin(0)

\* C8: a resetBuffers() that directly follows a resetBuffers() changes nothing:
\* two resets in a row leave the state one reset leaves.
C8_ResetIdempotent == (call.op = "reset" /\ call.after = "reset") => sim = prev

C8_Witness ==
  /\ call.op = "reset" /\ call.after = "reset"
  /\ nops = 3
  /\ sim.buf = EmptyBuf

\* the last step was taken from rest with the steering input at 0, as it has
\* been since the simulator was built (no caller here writes 0 again)
ZeroSteerStep ==
  /\ StepDone
  /\ prev.steerInput = Fin(0)
  /\ prev.vy = Fin(0)
  /\ prev.r = Fin(0)

\* yaw rate and lateral velocity are 0, and so are the yaw rate, slip angle,
\* lateral force, aligning torque and lateral acceleration last recorded
AtRest ==
  /\ sim.vy = Fin(0)
  /\ sim.r = Fin(0)
  /\ \A k \in {"yaw", "slipFL", "FyFL", "MzFL", "ay"} : LastRec(sim)[k] = Fin(0)

Twin(s) ==
  [s EXCEPT !.visual = ~s.visual, !.frontSteerAngle = Fin(0),
            !.wheelSpin = Fin(0)]

\* the twin of the simulator before the last call, after the same call
TwinAfter ==
  CASE call.op = "step"       -> step(Twin(prev), call.arg)
    [] call.op = "reset"      -> resetBuffers(Twin(prev))
    [] call.op = "bindVisual" -> Twin(prev)
    [] call.op \in {"steerInput", "speed"} \cup Wheels
                              -> [Twin(prev) EXCEPT ![call.op] = call.arg]

\* C18: a second simulator that agreed with this one before the last call in
\* configuration, inputs, dynamic state and buffer, and that was given the same
\* call, agrees with it afterwards in all of them, whether or not visual nodes
\* are bound to either; so equal sequences of calls give equal buffers.
C18_Deterministic ==
  call.op # "none" =>
    /\ TwinAfter.buf = sim.buf
    /\ Dynamic(TwinAfter) = Dynamic(sim)
    /\ Inputs(TwinAfter) = Inputs(sim)
    /\ Config(TwinAfter) = Config(sim)

\* a second step with visual nodes bound and the wheels turned
C18_Witness ==
  /\ StepDone
  /\ sim.visual
  /\ sim.wheelSpin # Fin(0)
  /\ sim.frontSteerAngle # Fin(0)
  /\ Len(sim.buf.time) = 2
  /\ sim.r # Fin(0)

\* the slip clamp of 20 degrees as a recorded slip angle: to radians, and back
\* to degrees as the record is (20.003 in the units and roundings used here)
SlipLimitDeg == fScale(fScale(Fin(200), 17453, 1000), 5730, 1000)

\* C23: every record a step appends has a front slip angle within -20 and
\* +20 degrees and a front lateral force within -1e5 and +1e5 N, and its
\* aligning torque is 0.12 times its lateral force, whatever the inputs.
C23_RecordWithinClamps ==
  StepDone =>
    LET rec == LastRec(sim)
    IN  /\ fLe(fNeg(SlipLimitDeg), rec.slipFL) /\ fLe(rec.slipFL, SlipLimitDeg)
        /\ fLe(Fin(-100000), rec.FyFL) /\ fLe(rec.FyFL, Fin(100000))
        /\ isFinite(rec.MzFL)
        /\ rec.MzFL = fScale(rec.FyFL, 12, 1)

----------------------------------------------------------------------------
(* A long drive: the buffer fills to its capacity *)

FrameDt      == 50
MaxOver      == 2
LongDtSet    == {Fin(0), Fin(10), Fin(FrameDt), PInf}
LongSteerSet == {Fin(0), Fin(30), Fin(-350)}

\* the frames driven before the choices start: the buffer is MaxOver records
\* short of its capacity
WarmUp == maxN - MaxOver

\* n calls of sim.step(dt), one after the other: the first half of the calls,
\* then the rest from the state they leave; calls that leave the state they
\* started from repeat, so only the remainder of n counts
RECURSIVE Drive(_, _, _)
Drive(s, dt, n) ==
  IF n = 0 THEN s
  ELSE IF n = 1 THEN step(s, dt)
  ELSE LET h    == n \div 2
           half == Drive(s, dt, h)
       IN  IF half = s THEN Drive(s, dt, n % h)
           ELSE Drive(half, dt, n - h)

\* the simulator of the page with a steering input, after WarmUp frames of the
\* render loop, one frame period each
InitLong ==
  /\ \E v \in LongSteerSet :
       sim = Drive([VehicleSim(MainParams) EXCEPT !.steerInput = v],
                   Fin(FrameDt), WarmUp)
  /\ prev = sim
  /\ call = NoCall
  /\ nops = WarmUp
  /\ app = IdleApp

\* sim.step(dt)
LongStep ==
  /\ nops < maxN + MaxOver
  /\ \E dt \in LongDtSet :
       /\ sim' = step(sim, dt)
       /\ call' = Call("step", dt, "api")
  /\ prev' = sim
  /\ nops' = nops + 1
  /\ UNCHANGED app

\* sim.resetBuffers()
LongReset ==
  /\ nops < maxN + MaxOver
  /\ sim' = resetBuffers(sim)
  /\ call' = Call("reset", Fin(0), "api")
  /\ prev' = sim
  /\ nops' = nops + 1
  /\ UNCHANGED app

NextLong ==
  \/ LongStep
  \/ LongReset

SpecLong == InitLong /\ [][NextLong]_vars

\* C1: the seven series always have one and the same length, at most 2000.
C1_SeriesEqualAndBounded ==
  \A k \in Series :
    /\ Len(sim.buf[k]) = Len(sim.buf.time)
    /\ Len(sim.buf[k]) <= maxN

\* a step taken with the buffer full
C1_Witness ==
  /\ StepDone
  /\ Len(prev.buf.time) = maxN
  /\ Len(sim.buf.time) = maxN

\* C9: a step taken with 2000 records held leaves, in every series, the records
\* held before without the first, in their order, followed by the new record;
\* a step taken with fewer leaves them all, followed by the new record.
C9_EvictionIsFifo ==
  StepDone =>
    \A k \in Series :
      sim.buf[k] =
        Append(IF Len(prev.buf.time) = maxN THEN Tail(prev.buf[k]) ELSE prev.buf[k],
               LastRec(sim)[k])

\* the oldest record left, the second oldest is now the first
C9_Witness ==
  /\ StepDone
  /\ Len(prev.buf.time) = maxN
  /\ sim.buf.time[1] = prev.buf.time[2]
  /\ sim.buf.time[1] # prev.buf.time[1]
  /\ sim.buf.time[maxN] = sim.time
  /\ call.after = "step"

----------------------------------------------------------------------------
(* The clock: the elapsed time and the time series over a long pause *)

\* a step over a pause as long as the range in which the elapsed time is exact
LongPause == TimeMantissa

ClockDtSet == {Fin(1), Fin(10), Fin(FrameDt), Fin(LongPause)}

\* the simulator of the page, steering input untouched, after WarmUp frames
InitClock ==
  /\ sim = Drive(VehicleSim(MainParams), Fin(FrameDt), WarmUp)
  /\ prev = sim
  /\ call = NoCall
  /\ nops = WarmUp
  /\ app = IdleApp

\* sim.step(dt) with a positive finite dt
ClockStep ==
  /\ nops < maxN + MaxOver
  /\ \E dt \in ClockDtSet :
       /\ sim' = step(sim, dt)
       /\ call' = Call("step", dt, "api")
  /\ prev' = sim
  /\ nops' = nops + 1
  /\ UNCHANGED app

NextClock ==
  \/ ClockStep
  \/ LongReset

SpecClock == InitClock /\ [][NextClock]_vars

\* the last entry of the time series is the elapsed time
LastIsNow == Len(sim.buf.time) > 0 => sim.buf.time[Len(sim.buf.time)] = sim.time

\* C25 as stated: under steps with positive finite dt and resets the time
\* series is strictly increasing, and the last entry of a buffer that is not
\* empty is the elapsed time.
C25_TimesStrictlyIncrease ==
  /\ \A j \in 1..(Len(sim.buf.time) - 1) : sim.buf.time[j] < sim.buf.time[j + 1]
  /\ LastIsNow

\* C25, amended: under steps with positive finite dt and resets the time
\* series never decreases, it increases strictly from every entry that lies
\* in the range where the elapsed time is kept exactly, and the last entry of
\* a buffer that is not empty is the elapsed time.
C25_TimesIncreaseWhileExact ==
  /\ \A j \in 1..(Len(sim.buf.time) - 1) :
       /\ sim.buf.time[j] <= sim.buf.time[j + 1]
       /\ sim.buf.time[j] < TimeMantissa => sim.buf.time[j] < sim.buf.time[j + 1]
  /\ LastIsNow

\* the buffer is full and has dropped its oldest records, and the last step
\* came after a long pause and moved the elapsed time
C25_Witness ==
  /\ StepDone
  /\ Len(sim.buf.time) = maxN
  /\ sim.buf.time[1] > Fin(FrameDt)
  /\ prev.time >= TimeMantissa
  /\ sim.time > prev.time
  /\ sim.buf.time[maxN] = sim.time

----------------------------------------------------------------------------
(* The page: render loop, controls, run-sweep button and the sweep *)

MaxTasks == 2

\* values the controls and the frame clock deliver
UiSteerSet   == {Fin(100)}
UiSpeedKmh   == {Fin(0)}
UiGlobalSet  == {Fin(2000)}
UiWheelSet   == {Fin(1400)}
ElapsedSet   == {Fin(16), Fin(200)}

\* a sweep that gives the thread back between two pressure points
SuspendedBetweenPoints(pc) == pc = "point"

\* positions at which the run-sweep handler has given the thread back with its
\* work unfinished, so that another task may run: the sweep's body has no await,
\* and the handler's own await resumes before any other task
Suspended(pc) == FALSE

\* the event loop may start a task
LoopFree == app.pc = "idle" \/ Suspended(app.pc)

\* a render loop that passes the elapsed time as it is
AnimateUnclamped ==
  /\ LoopFree
  /\ nops < MaxTasks
  /\ \E elapsed \in ElapsedSet :
       /\ sim' = step(sim, elapsed)
       /\ call' = Call("step", elapsed, "animate")
  /\ prev' = sim
  /\ nops' = nops + 1
  /\ UNCHANGED app

\* animate(t)
Animate ==
  /\ LoopFree
  /\ nops < MaxTasks
  /\ \E elapsed \in ElapsedSet :
       LET dt == MathMin(Fin(FrameDt), elapsed)
       IN  /\ sim' = step(sim, dt)
           /\ call' = Call("step", dt, "animate")
  /\ prev' = sim
  /\ nops' = nops + 1
  /\ UNCHANGED app

\* the model is loaded: sim.bindVisual(nodes)
ModelReady ==
  /\ LoopFree
  /\ ~sim.visual
  /\ sim' = [sim EXCEPT !.visual = TRUE]
  /\ call' = Call("bindVisual", Fin(0), "scene")
  /\ prev' = sim
  /\ UNCHANGED <<nops, app>>

\* the global pressure control
UiGlobalPressure ==
  /\ LoopFree
  /\ nops < MaxTasks
  /\ \E v \in UiGlobalSet :
       /\ sim' = [sim EXCEPT !.pressure = v,
                             !.pressureFL = v, !.pressureFR = v,
                             !.pressureRL = v, !.pressureRR = v]
       /\ call' = Call("pressure", v, "ui")
  /\ prev' = sim
  /\ nops' = nops + 1
  /\ UNCHANGED app

\* the four per-wheel pressure controls
UiWheelPressure ==
  /\ LoopFree
  /\ nops < MaxTasks
  /\ \E w \in Wheels, v \in UiWheelSet :
       /\ sim' = [sim EXCEPT ![w] = v]
       /\ call' = Call(w, v, "ui")
  /\ prev' = sim
  /\ nops' = nops + 1
  /\ UNCHANGED app

\* the steering control
UiSteering ==
  /\ LoopFree
  /\ nops < MaxTasks
  /\ \E v \in UiSteerSet :
       /\ sim' = [sim EXCEPT !.steerInput = v]
       /\ call' = Call("steerInput", v, "ui")
  /\ prev' = sim
  /\ nops' = nops + 1
  /\ UNCHANGED app

\* the speed control: sim.speed = v / 3.6
UiSpeed ==
  /\ LoopFree
  /\ nops < MaxTasks
  /\ \E kmh \in UiSpeedKmh :
       LET v == fScale(kmh, 1000, 36)
       IN  /\ sim' = [sim EXCEPT !.speed = v]
           /\ call' = Call("speed", v, "ui")
  /\ prev' = sim
  /\ nops' = nops + 1
  /\ UNCHANGED app

\* the reset control: sim.resetBuffers()
UiReset ==
  /\ LoopFree
  /\ nops < MaxTasks
  /\ sim' = resetBuffers(sim)
  /\ call' = Call("reset", Fin(0), "ui")
  /\ prev' = sim
  /\ nops' = nops + 1
  /\ UNCHANGED app

\* for (let p = 20; p <= 40; p += 2) pressures.push(p)
Pressures == [j \in 1..11 |-> Fin(2000 + 200 * (j - 1))]

SWEEP_STEER == 30
SETTLE_TIME == 1500
SAMPLE_TIME == 1000
SweepDt     == 10

\* click on run-sweep: the handler disables the button and calls
\* plots.runPressureSweep(), which starts with no results
SweepClick ==
  /\ LoopFree
  /\ nops < MaxTasks
  /\ ~app.btnDisabled
  /\ app' = [app EXCEPT !.btnDisabled = TRUE, !.sweeps = @ + 1,
                        !.pc = "point", !.i = 1, !.results = <<>>]
  /\ nops' = nops + 1
  /\ UNCHANGED <<sim, prev, call>>

\* sim.pressureFL = sim.pressureFR = sim.pressureRL = sim.pressureRR = P
SweepSetPressure ==
  /\ app.pc = "point"
  /\ LET P == Pressures[app.i]
     IN  /\ sim' = [sim EXCEPT !.pressureFL = P, !.pressureFR = P,
                               !.pressureRL = P, !.pressureRR = P]
         /\ call' = Call("pressures", P, "sweep")
  /\ prev' = sim
  /\ app' = [app EXCEPT !.pc = "reset"]
  /\ UNCHANGED nops

\* a sweep that goes from one pressure point to the next without a reset
SweepNoReset ==
  /\ app.pc = "reset"
  /\ app' = [app EXCEPT !.pc = "steer"]
  /\ UNCHANGED <<sim, prev, call, nops>>

\* sim.resetBuffers()
SweepReset ==
  /\ app.pc = "reset"
  /\ sim' = resetBuffers(sim)
  /\ call' = Call("reset", Fin(0), "sweep")
  /\ prev' = sim
  /\ app' = [app EXCEPT !.pc = "steer"]
  /\ UNCHANGED nops

\* sim.steerInput = SWEEP_STEER
SweepSteer ==
  /\ app.pc = "steer"
  /\ sim' = [sim EXCEPT !.steerInput = Fin(SWEEP_STEER)]
  /\ call' = Call("steerInput", Fin(SWEEP_STEER), "sweep")
  /\ prev' = sim
  /\ app' = [app EXCEPT !.pc = "settle", !.t = 0]
  /\ UNCHANGED nops

\* one pass of  for (let t = 0; t < SETTLE_TIME; t += 0.01) sim.step(0.01)
SweepSettle ==
  /\ app.pc = "settle"
  /\ app.t < SETTLE_TIME
  /\ sim' = step(sim, Fin(SweepDt))
  /\ call' = Call("step", Fin(SweepDt), "sweep")
  /\ prev' = sim
  /\ app' = IF app.t + SweepDt < SETTLE_TIME
            THEN [app EXCEPT !.t = @ + SweepDt]
            ELSE [app EXCEPT !.pc = "sample", !.t = 0,
                             !.slipArr = <<>>, !.FyArr = <<>>,
                             !.deltaArr = <<>>, !.yawArr = <<>>]
  /\ UNCHANGED nops

\* one pass of the sampling loop: a step, then the newest slip angle, lateral
\* force, steering angle and yaw rate are copied from the buffer
SweepSample ==
  /\ app.pc = "sample"
  /\ app.t < SAMPLE_TIME
  /\ sim' = step(sim, Fin(SweepDt))
  /\ LET N == Len(sim'.buf.slipFL)
     IN  app' = [app EXCEPT
                   !.slipArr  = Append(@, sim'.buf.slipFL[N]),
                   !.FyArr    = Append(@, sim'.buf.FyFL[N]),
                   !.deltaArr = Append(@, sim'.buf.delta[N]),
                   !.yawArr   = Append(@, sim'.buf.yaw[N]),
                   !.t  = @ + SweepDt,
                   !.pc = IF app.t + SweepDt < SAMPLE_TIME
                          THEN "sample" ELSE "estimate"]
  /\ call' = Call("step", Fin(SweepDt), "sweep")
  /\ prev' = sim
  /\ UNCHANGED nops

\* a[lo] + ... + a[hi], 0 for an empty range; the additions of the model are
\* exact, so the sum does not depend on how the terms are grouped
RECURSIVE SumRange(_, _, _)
SumRange(a, lo, hi) ==
  IF lo > hi THEN Fin(0)
  ELSE IF lo = hi THEN a[lo]
  ELSE LET mid == (lo + hi) \div 2
       IN  fAdd(SumRange(a, lo, mid), SumRange(a, mid + 1, hi))

\* arr.reduce((a, b) => a + b, 0)
Sum(a) == SumRange(a, 1, Len(a))

\* a selection that also takes the samples with |slip| = 3 deg
linearPointsInclusive(slipArr, FyArr) ==
  LET all == [j \in 1..Len(slipArr) |->
                [slip |-> slipArr[j],
                 a    |-> fScale(slipArr[j], 17453, 100000),
                 f    |-> FyArr[j]]]
      Small(p) == fLe(p.slip, Fin(3000)) /\ fLe(fNeg(p.slip), Fin(3000))
  IN  SelectSeq(all, Small)

\* the samples with |slip| < 3 deg, as {a: slip in rad, f: lateral force}
linearPoints(slipArr, FyArr) ==
  LET all == [j \in 1..Len(slipArr) |->
                [slip |-> slipArr[j],
                 a    |-> fScale(slipArr[j], 17453, 100000),
                 f    |-> FyArr[j]]]
      Small(p) == fLt(p.slip, Fin(3000)) /\ fLt(fNeg(p.slip), Fin(3000))
  IN  SelectSeq(all, Small)

\* an estimate taken as lateral force over slip angle (rad) of the last sample
EstimateCSecant(slipArr, FyArr) ==
  LET n == Len(slipArr)
  IN  fDiv(FyArr[n], fScale(slipArr[n], 17453, 100000), 10000)

\* the least-squares slope of lateral force against slip angle (rad) over the
\* samples with |slip| < 3 deg, 0 with fewer than 4 of them
EstimateC(slipArr, FyArr) ==
  LET pts   == linearPoints(slipArr, FyArr)
      n     == Len(pts)
      sumX  == Sum([j \in 1..n |-> pts[j].a])
      sumY  == Sum([j \in 1..n |-> pts[j].f])
      sumXY == Sum([j \in 1..n |-> fMul(pts[j].a, pts[j].f, 1)])
      sumXX == Sum([j \in 1..n |-> fMul(pts[j].a, pts[j].a, 1)])
  IN  IF n >= 4
      THEN fDiv(fSub(fMul(Fin(n), sumXY, 1), fMul(sumX, sumY, 1)),
                fSub(fMul(Fin(n), sumXX, 1), fMul(sumX, sumX, 1)), 10000)
      ELSE Fin(0)

\* avgYaw / (avgDelta + 1e-6), in 0.001/s; the 1e-6 deg is below the unit of
\* the steering angle and is left out for a non-zero average
EstimateYawGain(yawArr, deltaArr) ==
  LET avgYaw   == fDiv(Sum(yawArr), Fin(Len(yawArr)), 1)
      avgDelta == fDiv(Sum(deltaArr), Fin(Len(deltaArr)), 1)
  IN  CASE avgDelta # Fin(0) -> fDiv(avgYaw, avgDelta, 100)

\* the understeer proxy, in 1e-9 rad/N
EstimateKu(C_est) ==
  IF fGt(C_est, Fin(10))
  THEN fSub(fDiv(Fin(55), C_est, 10000000), fDiv(Fin(45), C_est, 10000000))
  ELSE Fin(0)

\* a sweep that drops the record of a point whose samples are not all finite
SweepEstimateSkipsUnstable ==
  /\ app.pc = "estimate"
  /\ LET C_est == EstimateC(app.slipArr, app.FyArr)
         row   == [P       |-> Pressures[app.i],
                   C_est   |-> C_est,
                   yawGain |-> EstimateYawGain(app.yawArr, app.deltaArr),
                   Ku      |-> EstimateKu(C_est)]
         sound == \A j \in 1..Len(app.slipArr) : isFinite(app.slipArr[j])
     IN  app' = [app EXCEPT
                   !.results = IF sound THEN Append(@, row) ELSE @,
                   !.slipArr = <<>>, !.FyArr = <<>>,
                   !.deltaArr = <<>>, !.yawArr = <<>>,
                   !.t = 0,
                   !.i = @ + 1,
                   !.pc = IF app.i < Len(Pressures) THEN "point" ELSE "charts"]
  /\ UNCHANGED <<sim, prev, call, nops>>

\* the estimates of one pressure point and  results.push({P, C_est, yawGain, Ku})
SweepEstimate ==
  /\ app.pc = "estimate"
  /\ LET C_est == EstimateC(app.slipArr, app.FyArr)
         row   == [P       |-> Pressures[app.i],
                   C_est   |-> C_est,
                   yawGain |-> EstimateYawGain(app.yawArr, app.deltaArr),
                   Ku      |-> EstimateKu(C_est)]
     IN  app' = [app EXCEPT
                   !.results = Append(@, row),
                   !.slipArr = <<>>, !.FyArr = <<>>,
                   !.deltaArr = <<>>, !.yawArr = <<>>,
                   !.t = 0,
                   !.i = @ + 1,
                   !.pc = IF app.i < Len(Pressures) THEN "point" ELSE "charts"]
  /\ UNCHANGED <<sim, prev, call, nops>>

\* the three charts are given the results and updated, and the sweep returns
\* its results: the promise the handler awaits is fulfilled
SweepCharts ==
  /\ app.pc = "charts"
  /\ app' = [app EXCEPT !.pc = "await"]
  /\ UNCHANGED <<sim, prev, call, nops>>

\* an update of a chart throws (the chart library is not a part of these
\* sources): the promise is rejected, the handler ends at its await with the
\* results lost, and nothing catches the rejection
SweepChartsThrow ==
  /\ app.pc = "charts"
  /\ app' = [app EXCEPT !.pc = "idle", !.rejected = TRUE, !.sweeps = @ - 1,
                        !.results = <<>>, !.i = 0]
  /\ UNCHANGED <<sim, prev, call, nops>>

\* the handler resumes after its await: window.lastSweepResults = sweepResults;
\* btn.disabled = false
SweepResume ==
  /\ app.pc = "await"
  /\ app' = [app EXCEPT
               !.lastSweepResults = [defined |-> TRUE, rows |-> app.results],
               !.results = <<>>, !.i = 0,
               !.btnDisabled = FALSE, !.sweeps = @ - 1, !.pc = "idle"]
  /\ UNCHANGED <<sim, prev, call, nops>>

NextApp ==
  \/ Animate
  \/ ModelReady
  \/ UiGlobalPressure
  \/ UiWheelPressure
  \/ UiSteering
  \/ UiSpeed
  \/ UiReset
  \/ SweepClick
  \/ SweepSetPressure
  \/ SweepReset
  \/ SweepSteer
  \/ SweepSettle
  \/ SweepSample
  \/ SweepEstimate
  \/ SweepCharts
  \/ SweepChartsThrow
  \/ SweepResume

SpecApp == Init /\ [][NextApp]_vars

\* the sweep has made its first call on the simulator and not yet its last
SweepUnderWay ==
  \/ app.pc \in {"reset", "steer", "settle", "sample", "estimate"}
  \/ app.pc = "point" /\ app.i > 1

\* C10: while a sweep is under way the last call or write on the simulator is
\* the sweep's own (none of the render loop, of the reset control or of an
\* input control comes in between), and at most one sweep is in progress.
C10_SweepOwnsSimulator ==
  /\ SweepUnderWay => call.by = "sweep"
  /\ app.sweeps <= 1
  /\ app.sweeps = 1 <=> app.pc # "idle"

\* a sweep between two pressure points, started after the render loop ran
C10_Witness ==
  /\ app.pc = "point"
  /\ app.i = 6
  /\ call.by = "sweep"
  /\ sim.time = Fin(SETTLE_TIME + SAMPLE_TIME)
  /\ nops = 2

----------------------------------------------------------------------------
(* The sweep run on a simulator that a script has written to *)

ApiSpeedSet == {NaN, PInf}

\* window.sim is exposed: a script assigns sim.speed = v between two tasks
ApiSpeed ==
  /\ LoopFree
  /\ nops < MaxTasks
  /\ \E v \in ApiSpeedSet :
       /\ sim' = [sim EXCEPT !.speed = v]
       /\ call' = Call("speed", v, "api")
  /\ prev' = sim
  /\ nops' = nops + 1
  /\ UNCHANGED app

NextSweep ==
  \/ ApiSpeed
  \/ SweepClick
  \/ SweepSetPressure
  \/ SweepReset
  \/ SweepSteer
  \/ SweepSettle
  \/ SweepSample
  \/ SweepEstimate
  \/ SweepCharts
  \/ SweepChartsThrow
  \/ SweepResume

SpecSweep == Init /\ [][NextSweep]_vars

\* one record per pressure 20, 22, ..., 40 psi, in that order
OneRowPerPressure(rows) ==
  /\ Len(rows) = 11
  /\ \A j \in 1..11 : rows[j].P = Fin(2000 + 200 * (j - 1))

\* the last step's Euler update was not finite: the stability guard fired
GuardFired ==
  /\ StepDone
  /\ LET e == Euler(prev, Dyn(prev), call.arg)
     IN  ~isFinite(ClampState(e).vy) \/ ~isFinite(ClampState(e).r)

\* C11: a sweep under way holds one record for each pressure point it has
\* finished and no other; the sweep that returns hands back exactly one record
\* per pressure 20, 22, ..., 40 psi in that order, also when the stability
\* guard fired on the way, and the stored last sweep result becomes exactly
\* the returned sequence.
C11_OneRecordPerPressure ==
  /\ [](app.pc # "idle" =>
          /\ Len(app.results) = app.i - 1
          /\ \A j \in 1..Len(app.results) :
               app.results[j].P = Fin(2000 + 200 * (j - 1)))
  /\ [][(app.pc = "await" /\ app'.pc = "idle") =>
          /\ OneRowPerPressure(app.results)
          /\ app'.lastSweepResults = [defined |-> TRUE, rows |-> app.results]]_vars

\* a sweep has returned its records after a last step on which the guard fired
C11_Witness ==
  /\ app.pc = "await"
  /\ call.by = "sweep"
  /\ GuardFired
  /\ OneRowPerPressure(app.results)

\* the simulator as a page that has run no task yet holds it
FreshSim == VehicleSim(MainParams)

\* pressures, steering input, dynamic state and buffer of sim are those of s
SweepRestored(s) ==
  /\ \A w \in Wheels : sim[w] = s[w]
  /\ sim.steerInput = s.steerInput
  /\ Dynamic(sim) = Dynamic(s)
  /\ sim.buf = s.buf

\* the state resetBuffers() leaves
SweepResetState ==
  /\ sim.buf = EmptyBuf
  /\ sim.time = Fin(0)
  /\ sim.vy = Fin(0)
  /\ sim.r = Fin(0)

\* C12: when a sweep started on the fresh page has returned, the simulator's
\* wheel pressures, steering input, dynamic state and buffer are either all
\* what they were before the sweep or the reset state (empty buffers, zero
\* elapsed time, yaw rate and lateral velocity).
C12_SweepLeavesDefinedState ==
  (app.pc = "await" /\ nops = 1) =>
    (SweepRestored(FreshSim) \/ SweepResetState)

\* C13: every step the sweep takes is taken with the steering input at the
\* 3 degree excitation and the forward speed at one fixed value (the 20 m/s
\* the simulator is built with), whatever speed the user selected before.
C13_SweepFixesSteerAndSpeed ==
  (call.by = "sweep" /\ call.op = "step") =>
    /\ sim.steerInput = Fin(SWEEP_STEER)
    /\ sim.speed = MainParams.u

\* b is not below a by more than 5% of a's size
WithinFivePercent(a, b) ==
  fGe(fScale(b, 100, 1), fSub(fScale(a, 100, 1), fScale(Abs(a), 5, 1)))

NonDecreasing(rows) ==
  \A j \in 1..(Len(rows) - 1) :
    WithinFivePercent(rows[j].C_est, rows[j + 1].C_est)

\* C16: with the simulator as main.js builds it (P0 = 32, Calpha0 = 80000,
\* m = 1500, Iz = 2500, lf = 1.2, lr = 1.6, speed 20 m/s), the cornering-
\* stiffness estimates of the sweep, those gathered so far and those stored
\* at its end, do not decrease from one pressure to the next by more than 5%.
C16_SweepEstimatesNonDecreasing ==
  (sim.speed = Fin(2000) /\ Config(sim) = Config(FreshSim)) =>
    /\ NonDecreasing(app.results)
    /\ NonDecreasing(app.lastSweepResults.rows)

\* the sweep of the fresh page has returned its eleven estimates
C16_Witness ==
  /\ app.pc = "await"
  /\ sim.speed = Fin(2000)
  /\ nops = 1
  /\ Len(app.results) = 11
  /\ app.results[1].P = Fin(2000)
  /\ app.results[11].P = Fin(4000)
  /\ \A j \in 1..11 : isFinite(app.results[j].C_est)

\* C19: after the global pressure control or a sweep point has set the
\* pressure, the uniform pressure field and the four wheel fields all hold the
\* value set; a per-wheel control changes the field of its wheel and none of
\* the other pressure fields.
C19_UniformPressureAgrees ==
  /\ call.op \in {"pressure", "pressures"} =>
       /\ sim.pressure = call.arg
       /\ \A w \in Wheels : sim[w] = call.arg
  /\ call.op \in Wheels =>
       /\ sim[call.op] = call.arg
       /\ sim.pressure = prev.pressure
       /\ \A w \in Wheels \ {call.op} : sim[w] = prev[w]

\* C20: what a frame of the render loop does to the simulator is one step, no
\* more and no less, with a dt of at most 0.05 s, whatever time has elapsed
\* since the frame before (a stall or a whole sweep included).
C20_FrameStepsOnceClamped ==
  call.by = "animate" =>
    /\ call.op = "step"
    /\ fLe(call.arg, Fin(50))
    /\ sim = step(prev, call.arg)

\* the first frame after a sweep, 0.2 s after the frame before: dt is 0.05 s
\* and the buffer the sweep left has one record more
C20_Witness ==
  /\ call.by = "animate"
  /\ call.arg = Fin(50)
  /\ app.lastSweepResults.defined
  /\ Len(prev.buf.time) = 250
  /\ Len(sim.buf.time) = 251
  /\ sim.time = fAdd(prev.time, Fin(50))

\* the steps of the settle interval and of the sample interval of one point
SettleSteps == SETTLE_TIME \div SweepDt
SampleSteps == SAMPLE_TIME \div SweepDt

\* the k samples gathered so far are the values of the k records appended
\* since the settle interval ended, in the order of their steps
SamplesAreSampleRecords ==
  LET k == Len(app.slipArr)
  IN  /\ Len(sim.buf.time) = SettleSteps + k
      /\ app.slipArr  = SubSeq(sim.buf.slipFL, SettleSteps + 1, SettleSteps + k)
      /\ app.FyArr    = SubSeq(sim.buf.FyFL, SettleSteps + 1, SettleSteps + k)
      /\ app.deltaArr = SubSeq(sim.buf.delta, SettleSteps + 1, SettleSteps + k)
      /\ app.yawArr   = SubSeq(sim.buf.yaw, SettleSteps + 1, SettleSteps + k)
      /\ \A j \in 1..(SettleSteps + k) :
           sim.buf.time[j] = Fin(j * SweepDt)

\* C24: within a sweep each pressure point sets the four wheel pressures,
\* resets, sets the steering excitation, settles and samples, in that order;
\* so each point starts its settle interval from zero elapsed time, yaw rate
\* and lateral velocity and an empty buffer, and the samples that enter its
\* estimates are exactly the records of its own sample interval.
C24_PointOrderAndSamples ==
  /\ (call.by = "sweep" /\ call.op = "reset") => call.after = "pressures"
  /\ (call.by = "sweep" /\ call.op = "steerInput") => call.after = "reset"
  /\ (call.by = "sweep" /\ call.op = "step") =>
       call.after \in {"steerInput", "step"}
  /\ (app.pc = "settle" /\ app.t = 0) =>
       /\ call.op = "steerInput"
       /\ SweepResetState
       /\ \A w \in Wheels : sim[w] = Pressures[app.i]
       /\ sim.steerInput = Fin(SWEEP_STEER)
  /\ app.pc = "settle" => Len(sim.buf.time) * SweepDt = app.t
  /\ app.pc \in {"sample", "estimate"} => SamplesAreSampleRecords
  /\ app.pc = "sample" => Len(app.slipArr) * SweepDt = app.t
  /\ app.pc = "estimate" => Len(app.slipArr) = SampleSteps

\* the second pressure point has gathered its samples
C24_Witness ==
  /\ app.pc = "estimate"
  /\ app.i = 2
  /\ Len(app.results) = 1
  /\ Len(app.slipArr) = SampleSteps
  /\ Len(sim.buf.time) = SettleSteps + SampleSteps
  /\ sim.buf.time[1] = Fin(SweepDt)
  /\ app.slipArr[1] = sim.buf.slipFL[SettleSteps + 1]

----------------------------------------------------------------------------
(* The sweep controls: run-sweep and export-csv *)

\* the digits of the fraction f / 10^d, the zeros at its end left out
RECURSIVE FracDigits(_, _)
FracDigits(f, d) ==
  IF f = 0 THEN ""
  ELSE LET top == 10 ^ (d - 1)
       IN  ToString(f \div top) \o FracDigits(f % top, d - 1)

\* `${x}` for a number x kept in units of 10^-d: the decimal notation of its
\* value, with no fraction for a whole number
NumberToString(x, d) ==
  CASE IsNaN(x) -> "NaN"
    [] x = PInf -> "Infinity"
    [] x = NInf -> "-Infinity"
    [] OTHER    ->
         LET whole == Abs(x) \div (10 ^ d)
             frac  == Abs(x) % (10 ^ d)
         IN  (IF x < 0 THEN "-" ELSE "") \o ToString(whole)
               \o (IF frac = 0 THEN "" ELSE "." \o FracDigits(frac, d))

\* `${r.P},${r.C_est},${r.yawGain}`
CsvRow(r) ==
  NumberToString(r.P, 2) \o "," \o NumberToString(r.C_est, 0)
    \o "," \o NumberToString(r.yawGain, 3)

CsvHeader == "Pressure,Cornering_Stiffness,Yaw_Gain"

\* the rows written from the last result to the first
CsvLinesNewestFirst(rows) ==
  <<CsvHeader>> \o [j \in 1..Len(rows) |-> CsvRow(rows[Len(rows) + 1 - j])]

\* ["Pressure,...", ...res.map(r => ...)]
CsvLines(rows) ==
  <<CsvHeader>> \o [j \in 1..Len(rows) |-> CsvRow(rows[j])]

\* lines.join(sep)
RECURSIVE Join(_, _)
Join(lines, sep) ==
  IF Len(lines) = 0 THEN ""
  ELSE IF Len(lines) = 1 THEN lines[1]
  ELSE lines[1] \o sep \o Join(Tail(lines), sep)

\* the file a click on the link downloads
CsvFile(rows) ==
  [defined |-> TRUE, name |-> "sweep_results.csv",
   lines |-> CsvLines(rows), text |-> Join(CsvLines(rows), "\n")]

\* an export that does not look whether a sweep has stored a result
ExportCsvUnguarded ==
  /\ LoopFree
  /\ app' = [app EXCEPT !.file = CsvFile(app.lastSweepResults.rows),
                        !.lastExport = "file"]
  /\ UNCHANGED <<sim, prev, call, nops>>

\* click on export-csv: an alert when window.lastSweepResults is not set,
\* else the download of the rows as sweep_results.csv
ExportCsv ==
  /\ LoopFree
  /\ app' = IF ~app.lastSweepResults.defined
            THEN [app EXCEPT !.alerted = TRUE, !.lastExport = "alert"]
            ELSE [app EXCEPT !.file = CsvFile(app.lastSweepResults.rows),
                             !.lastExport = "file"]
  /\ UNCHANGED <<sim, prev, call, nops>>

NextPanel ==
  \/ ApiSpeed
  \/ ExportCsv
  \/ SweepClick
  \/ SweepSetPressure
  \/ SweepReset
  \/ SweepSteer
  \/ SweepSettle
  \/ SweepSample
  \/ SweepEstimate
  \/ SweepCharts
  \/ SweepChartsThrow
  \/ SweepResume

SpecPanel == Init /\ [][NextPanel]_vars

\* a click on export-csv that changed the page
ExportStep ==
  /\ app.pc = "idle" /\ app'.pc = "idle"
  /\ app' # app

\* C21: an export made while a sweep result is stored downloads the header
\* row Pressure,Cornering_Stiffness,Yaw_Gain and after it one row
\* P,C_est,yawGain for each record of the stored result, in the order of the
\* records, joined by line feeds; and the stored result is that of the sweep
\* that completed last: only a sweep that returns changes it, to its records.
C21_ExportWritesSweepRows ==
  /\ [][(ExportStep /\ app.lastSweepResults.defined) =>
          LET rows == app.lastSweepResults.rows
              f    == app'.file
          IN  /\ f.defined /\ f.name = "sweep_results.csv"
              /\ Len(f.lines) = Len(rows) + 1
              /\ f.lines[1] = CsvHeader
              /\ \A j \in 1..Len(rows) : f.lines[j + 1] = CsvRow(rows[j])
              /\ f.text = Join(f.lines, "\n")
              /\ app' = [app EXCEPT !.file = f, !.lastExport = "file"]
              /\ UNCHANGED <<sim, prev, call, nops>>]_vars
  /\ [][app'.lastSweepResults # app.lastSweepResults =>
          /\ app.pc = "await"
          /\ app'.lastSweepResults = [defined |-> TRUE, rows |-> app.results]]_vars

\* the sweep of the fresh page has been exported
C21_Witness ==
  /\ app.lastExport = "file"
  /\ nops = 1
  /\ sim.speed = Fin(2000)
  /\ app.file.lines =
       << "Pressure,Cornering_Stiffness,Yaw_Gain",
          "20,0,-54.807", "22,0,-59.043", "24,0,-63.17", "26,0,-67.247",
          "28,0,-71.257", "30,0,-75.24", "32,0,-79.16", "34,0,-83.077",
          "36,0,-86.887", "38,0,-90.68", "40,0,-94.46" >>
  /\ Len(app.file.text) = 175

\* C22: an export made while no sweep result is stored raises the alert and
\* does nothing else: no file is offered, no handler fails, the simulator and
\* the state of the sweep stay as they are; a file is offered only once a
\* sweep has stored its result, and the alert stands in the way of neither.
C22_ExportBeforeSweepOnlyAlerts ==
  /\ [][(ExportStep /\ ~app.lastSweepResults.defined) =>
          /\ app' = [app EXCEPT !.alerted = TRUE, !.lastExport = "alert"]
          /\ ~app'.file.defined /\ app'.rejected = app.rejected
          /\ UNCHANGED <<sim, prev, call, nops>>]_vars
  /\ [](app.file.defined => app.lastSweepResults.defined)
  /\ []((app.pc = "idle" /\ ~app.rejected) => ~app.btnDisabled)

\* an export that only alerted, then a sweep, then an export that downloaded
\* the rows of that sweep
C22_Witness ==
  /\ app.alerted
  /\ app.lastExport = "file"
  /\ app.file.defined
  /\ app.file.lines = CsvLines(app.lastSweepResults.rows)
  /\ Len(app.file.lines) = 12
  /\ ~app.btnDisabled

\* the page with its scheduling: the loop of a sweep is one synchronous run
\* of runPressureSweep and the rest of the handler is a microtask, so a sweep
\* that was begun goes on to its end; the clicks are the user's and are not
\* bound to happen.  For the three steps that run the integrator or the
\* estimator, weak fairness is written out, with the condition under which
\* the step is enabled (its place in the loop) in the place of ENABLED.
SpecPanelFair ==
  /\ SpecPanel
  /\ WF_vars(SweepSetPressure \/ SweepReset \/ SweepSteer)
  /\ WF_vars(SweepCharts \/ SweepChartsThrow)
  /\ WF_vars(SweepResume)
  /\ \/ []<>(app.pc \notin {"settle", "sample", "estimate"})
     \/ []<><<SweepSettle \/ SweepSample \/ SweepEstimate>>_vars

\* C27: a click on run-sweep disables the control, and whenever the control
\* is disabled it is later enabled again with a sweep result stored, whether
\* runPressureSweep returns or throws.
C27_ClickEndsEnabled ==
  /\ [][app'.sweeps > app.sweeps => app'.btnDisabled]_vars
  /\ [](app.pc # "idle" => app.btnDisabled)
  /\ app.btnDisabled ~> (~app.btnDisabled /\ app.lastSweepResults.defined)

----------------------------------------------------------------------------
(* The estimates of one sweep point, on sampled arrays of any content *)

MaxSamples == 5
EstSlipSet == {Fin(-100), Fin(200), Fin(3000)}
EstFySet   == {Fin(-3), Fin(4)}

\* a sweep point whose sampling loop has filled slipArr and FyArr
InitEst ==
  /\ sim = FreshSim
  /\ prev = sim
  /\ call = NoCall
  /\ nops = 0
  /\ \E n \in 1..MaxSamples :
       \E sl \in [1..n -> EstSlipSet], fy \in [1..n -> EstFySet] :
         app = [IdleApp EXCEPT
                  !.pc = "estimate", !.btnDisabled = TRUE, !.sweeps = 1,
                  !.i = 1,
                  !.slipArr = sl, !.FyArr = fy,
                  !.deltaArr = [j \in 1..n |-> Fin(SWEEP_STEER)],
                  !.yawArr = [j \in 1..n |-> Fin(0)]]

NextEst == SweepEstimate

SpecEst == InitEst /\ [][NextEst]_vars

\* the sum of f over the finite set js
RECURSIVE SumOver(_, _)
SumOver(f, js) ==
  IF js = {} THEN Fin(0)
  ELSE LET j == CHOOSE x \in js : TRUE
       IN  fAdd(f[j], SumOver(f, js \ {j}))

\* 0 with fewer than 4 samples of |slip| < 3 deg, else the least-squares slope
\* (n Sxy - Sx Sy) / (n Sxx - Sx Sx) of force against slip in rad over them
OlsOrZero(slipArr, FyArr) ==
  LET Q   == {j \in 1..Len(slipArr) :
                fLt(slipArr[j], Fin(3000)) /\ fGt(slipArr[j], Fin(-3000))}
      n   == Cardinality(Q)
      x   == [j \in Q |-> fScale(slipArr[j], 17453, 100000)]
      y   == [j \in Q |-> FyArr[j]]
      Sx  == SumOver(x, Q)
      Sy  == SumOver(y, Q)
      Sxy == SumOver([j \in Q |-> fMul(x[j], y[j], 1)], Q)
      Sxx == SumOver([j \in Q |-> fMul(x[j], x[j], 1)], Q)
  IN  IF n < 4 THEN Fin(0)
      ELSE fDiv(fSub(fMul(Fin(n), Sxy, 1), fMul(Sx, Sy, 1)),
                fSub(fMul(Fin(n), Sxx, 1), fMul(Sx, Sx, 1)), 10000)

\* C14: the cornering-stiffness estimate pushed for a sweep point is 0 when
\* fewer than 4 samples have |slip| < 3 deg, and otherwise the least-squares
\* slope of lateral force against slip angle (rad) over exactly those samples.
C14_EstimateIsZeroOrOlsSlope ==
  [][(app.pc = "estimate" /\ app'.pc # "estimate") =>
       /\ Len(app'.results) = Len(app.results) + 1
       /\ app'.results[Len(app'.results)].C_est =
            OlsOrZero(app.slipArr, app.FyArr)]_vars

\* an estimate fitted through at least 4 samples: a finite slope other than 0
C14_Witness ==
  /\ app.pc = "point"
  /\ Len(app.results) = 1
  /\ isFinite(app.results[1].C_est)
  /\ app.results[1].C_est # Fin(0)

----------------------------------------------------------------------------
(* The stiffness law, on axle pressures above and below its floor *)

StiffSet == {Fin(1), Fin(5), Fin(10), Fin(100), Fin(2000), Fin(3200),
             Fin(4000), Fin(6400)}

\* the simulator of the page with the front wheels at one pressure and the
\* rear wheels at another, steered 3 degrees
InitStiff ==
  /\ \E Pf \in StiffSet, Pr \in StiffSet :
       sim = [FreshSim EXCEPT !.pressureFL = Pf, !.pressureFR = Pf,
                              !.pressureRL = Pr, !.pressureRR = Pr,
                              !.steerInput = Fin(SWEEP_STEER)]
  /\ prev = sim
  /\ call = NoCall
  /\ nops = 0
  /\ app = IdleApp

\* sim.step(0.01)
StiffStep ==
  /\ nops < MaxOps
  /\ sim' = step(sim, Fin(SweepDt))
  /\ call' = Call("step", Fin(SweepDt), "api")
  /\ prev' = sim
  /\ nops' = nops + 1
  /\ UNCHANGED app

NextStiff == StiffStep

SpecStiff == InitStiff /\ [][NextStiff]_vars

\* the stiffnesses the last step computed for the front and the rear axle
FrontP == AxleP(prev, "pressureFL", "pressureFR")
RearP  == AxleP(prev, "pressureRL", "pressureRR")
FrontC == CalphaFromP(prev, FrontP)
RearC  == CalphaFromP(prev, RearP)

=============================================================================
